---- MODULE Spec2Model ----
(***************************************************************************)
(* Model of the two MCP tool servers of mcp-firebase:                      *)
(*   src/google-docs.py  the word-processor tools and the OAuth2           *)
(*                       credential acquisition get_credentials            *)
(*   src/firebase.py     the identity and document-store tools             *)
(* The two files are two separate server programs. prog says which one a   *)
(* behaviour is a run of and, for firebase.py, which of its two tool       *)
(* families the client calls in that run: the identity tools touch only    *)
(* the identity backend and the document-store tools only the document     *)
(* store, so a run mixing them is an interleaving of one run of each.      *)
(***************************************************************************)
EXTENDS Integers, FiniteSets, Sequences, TLC

\* ------------------------------------------------------------------ bounds
\* Latest instant of the discrete clock.
MaxTime == 2
\* Lifetime, in clock ticks, of an access token the authorization server issues.
TokenLifetime == 1
\* Tool invocations one run of the word-processor server receives.
MaxInvocations == 2
\* Users the identity backend creates in one run of the firebase server.
MaxUsers == 1

\* ------------------------------------------------------------------ values
Calls == {"a", "b"}
NoExpiry == -1
DocIds == 1 .. MaxInvocations

\* The in-memory credentials object (google.oauth2.credentials.Credentials) as
\* get_credentials uses it: kind "none" is Python's None.
NoCreds == [kind |-> "none", token |-> 0, expiry |-> NoExpiry, refresh |-> FALSE]
Creds(t, e, r) == [kind |-> "creds", token |-> t, expiry |-> e, refresh |-> r]

\* creds.expired at instant t: a record without expiry never expires.
ExpiredAt(c, t) == c.expiry # NoExpiry /\ t >= c.expiry
\* creds.valid at instant t: an access token that is not expired.
ValidAt(c, t) == c.kind = "creds" /\ c.token # 0 /\ ~ExpiredAt(c, t)

\* pickle.dump / pickle.load of a credentials object: the file holds the
\* serialized fields, not the object.
Pickle(c) == <<c.token, c.expiry, c.refresh>>
Unpickle(b) == Creds(b[1], b[2], b[3])

\* The token file: absent, a pickled record, or a file a failed dump left
\* truncated.
NoFile == [state |-> "absent", bytes |-> <<0, NoExpiry, FALSE>>]
CorruptFile == [state |-> "corrupt", bytes |-> <<0, NoExpiry, FALSE>>]
File(c) == [state |-> "file", bytes |-> Pickle(c)]

\* What the token file can hold when the server starts (the clock starts at 0):
\* nothing, or a record with or without an access token, expired (expiry 0),
\* not yet expired (expiry 1) or without expiry, with or without refresh token.
InitStores ==
  {NoFile} \cup {File(Creds(t, e, r)) : t \in {0, 1}, e \in {NoExpiry, 0, 1}, r \in BOOLEAN}

\* ------------------------------------------------------------------ envelopes
NoEnv == [none |-> TRUE]
\* A failure that left the tool: not a value the tool returns.
Propagated(kind) == [raised |-> kind]
\* Faulty variant of Catch: an except clause that names the wrong exception
\* classes lets some failures through.
CatchMutant(kind) ==
  IF kind \in {"RefreshError", "PermissionDenied"}
  THEN Propagated(kind)
  ELSE [success |-> FALSE, error |-> kind]
\* except Exception as e: return {"success": False, "error": str(e)}
Catch(kind) == [success |-> FALSE, error |-> kind]

VARIABLES
  prog,      \* "gdocs" | "auth" | "firestore": the server program (and tool
             \* family) this run is of
  \* ---- google-docs.py
  store,     \* the token file ~/.google-docs-token.pickle
  now,       \* the clock
  issued,    \* access tokens the authorization server has issued
  invoked,   \* tool invocations received
  files,     \* ids of the documents the Drive backend holds
  pc,        \* per call: where it is
  tool,      \* per call: "get_document" | "create_document"
  content,   \* per call: create_document's content argument
  docArg,    \* per call: get_document's document_id argument
  stage,     \* per call: 1 = first service, 2 = create_document's docs service
  creds,     \* per call: get_credentials' local creds
  pre,       \* per call: the token file when the current acquisition loaded it
  did,       \* per call: "none" | "refresh" | "flow", what the acquisition completed
  attempts,  \* per call: executions of the write (lines 41-42) in this acquisition
  acq,       \* per call: "none" | "running" | "returned" | "raised"
  retAt,     \* per call: the instant get_credentials returned
  fileId,    \* per call: the file create_document created, 0 if none
  calls,     \* per call: backend calls the current tool call has made, in order
  env,       \* per call: the envelope the tool returned
  \* ---- firebase.py
  users,     \* identity backend: uid -> user record
  nextUid,   \* identity backend: uids handed out
  hist,      \* orig: per live uid whose email was never changed, the email it
             \* was created with; deleted: the uids deleted
  fdocs,     \* document store: <<collection, document>> -> data
  last,      \* the last firebase tool call: arguments, what it forwarded to the
             \* backend, the user record the backend held before it
  fenv       \* the envelope the last firebase tool call returned

gvars == <<store, now, issued, invoked, files, pc, tool, content, docArg,
           stage, creds, pre, did, attempts, acq, retAt, fileId, calls, env>>
fvars == <<users, nextUid, hist, fdocs, last, fenv>>
vars == <<prog, gvars, fvars>>

\* ------------------------------------------------------------------ google-docs.py
GInit ==
  /\ store \in (IF prog = "gdocs" THEN InitStores ELSE {NoFile})
  /\ now = 0
  /\ issued = 1
  /\ invoked = 0
  /\ files = {}
  /\ pc = [c \in Calls |-> "idle"]
  /\ tool = [c \in Calls |-> "get_document"]
  /\ content = [c \in Calls |-> ""]
  /\ docArg = [c \in Calls |-> 1]
  /\ stage = [c \in Calls |-> 1]
  /\ creds = [c \in Calls |-> NoCreds]
  /\ pre = [c \in Calls |-> NoFile]
  /\ did = [c \in Calls |-> "none"]
  /\ attempts = [c \in Calls |-> 0]
  /\ acq = [c \in Calls |-> "none"]
  /\ retAt = [c \in Calls |-> 0]
  /\ fileId = [c \in Calls |-> 0]
  /\ calls = [c \in Calls |-> <<>>]
  /\ env = [c \in Calls |-> NoEnv]

\* The calls whose coroutine has started and not yet returned its envelope.
Running == {c \in Calls : pc[c] \notin {"idle", "pending"}}

\* Faulty variant of MayRun: tool calls that suspend at their I/O.
MayRunMutant(c) == TRUE
\* The event loop starts a tool coroutine only when it is not inside another:
\* the tools are "async def" bodies without a single await, and get_credentials
\* and the googleapiclient calls are synchronous, so a started call keeps the
\* loop until it returns.
MayRun(c) == Running = {}

\* A tool call arrives (it is in flight from here on).
Invoke(c) ==
  /\ prog = "gdocs"
  /\ pc[c] = "idle"
  /\ invoked < MaxInvocations
  /\ \/ /\ tool' = [tool EXCEPT ![c] = "get_document"]
        /\ content' = [content EXCEPT ![c] = ""]
        /\ \E d \in DocIds : docArg' = [docArg EXCEPT ![c] = d]
     \/ /\ tool' = [tool EXCEPT ![c] = "create_document"]
        /\ \E t \in {"", "text"} : content' = [content EXCEPT ![c] = t]
        /\ docArg' = [docArg EXCEPT ![c] = 1]
  /\ invoked' = invoked + 1
  /\ pc' = [pc EXCEPT ![c] = "pending"]
  /\ env' = [env EXCEPT ![c] = NoEnv]
  /\ UNCHANGED <<store, now, issued, files, stage, creds, pre, did, attempts, acq,
                 retAt, fileId, calls, fvars, prog>>

\* The event loop enters the tool body: try: service = get_docs_service() /
\* drive_service = get_drive_service(), which call get_credentials.
Begin(c) ==
  /\ prog = "gdocs"
  /\ pc[c] = "pending"
  /\ MayRun(c)
  /\ pc' = [pc EXCEPT ![c] = "load"]
  /\ stage' = [stage EXCEPT ![c] = 1]
  /\ fileId' = [fileId EXCEPT ![c] = 0]
  /\ calls' = [calls EXCEPT ![c] = <<>>]
  /\ acq' = [acq EXCEPT ![c] = "none"]
  /\ UNCHANGED <<store, now, issued, invoked, files, tool, content, docArg, creds,
                 pre, did, attempts, retAt, env, fvars, prog>>

\* An exception leaves the try block of the tool: the except clause builds the
\* envelope. inAcq: the exception came out of get_credentials.
Raise(c, kind, inAcq) ==
  /\ pc' = [pc EXCEPT ![c] = "done"]
  /\ env' = [env EXCEPT ![c] = Catch(kind)]
  /\ acq' = [acq EXCEPT ![c] = IF inAcq THEN "raised" ELSE @]

\* get_credentials returns creds to get_docs_service / get_drive_service.
Return(c) ==
  /\ pc' = [pc EXCEPT ![c] = "execute"]
  /\ acq' = [acq EXCEPT ![c] = "returned"]
  /\ retAt' = [retAt EXCEPT ![c] = now]

\* Lines 26-32: creds = None; if the token file exists, creds = pickle.load.
get_credentials_load(c) ==
  /\ prog = "gdocs"
  /\ pc[c] = "load"
  /\ pre' = [pre EXCEPT ![c] = store]
  /\ did' = [did EXCEPT ![c] = "none"]
  /\ attempts' = [attempts EXCEPT ![c] = 0]
  /\ \/ /\ store.state = "absent"
        /\ creds' = [creds EXCEPT ![c] = NoCreds]
        /\ pc' = [pc EXCEPT ![c] = "check"]
        /\ acq' = [acq EXCEPT ![c] = "running"]
        /\ UNCHANGED env
     \/ /\ store.state = "file"
        /\ creds' = [creds EXCEPT ![c] = Unpickle(store.bytes)]
        /\ pc' = [pc EXCEPT ![c] = "check"]
        /\ acq' = [acq EXCEPT ![c] = "running"]
        /\ UNCHANGED env
     \/ /\ store.state = "corrupt"
        /\ creds' = [creds EXCEPT ![c] = NoCreds]
        /\ Raise(c, "UnpicklingError", TRUE)
  /\ UNCHANGED <<store, now, issued, invoked, files, tool, content, docArg, stage,
                 retAt, fileId, calls, fvars, prog>>

\* Faulty variant of NeedsWork: "if not creds".
NeedsWorkMutant(c) == creds[c].kind = "none"
\* Line 34: not creds or not creds.valid.
NeedsWork(c) == ~ValidAt(creds[c], now)
\* Line 35: creds and creds.expired and creds.refresh_token.
Refreshable(c) ==
  creds[c].kind = "creds" /\ ExpiredAt(creds[c], now) /\ creds[c].refresh

\* Faulty variant of AfterCheck: the write dedented out of the if of line 34.
AfterCheckMutant(c) ==
  IF ~NeedsWork(c) THEN "write" ELSE IF Refreshable(c) THEN "refresh" ELSE "flow"
\* Lines 34-44, the way out of the check: a valid record goes straight to the
\* return of line 44; the write of lines 41-42 is inside the if of line 34.
AfterCheck(c) ==
  IF ~NeedsWork(c) THEN "return" ELSE IF Refreshable(c) THEN "refresh" ELSE "flow"

get_credentials_check(c) ==
  /\ prog = "gdocs"
  /\ pc[c] = "check"
  /\ IF AfterCheck(c) = "return"
     THEN Return(c)
     ELSE /\ pc' = [pc EXCEPT ![c] = AfterCheck(c)]
          /\ UNCHANGED <<acq, retAt>>
  /\ UNCHANGED <<store, now, issued, invoked, files, tool, content, docArg, stage,
                 creds, pre, did, attempts, fileId, calls, env, fvars, prog>>

\* Line 36: creds.refresh(Request()). It updates creds in place on success and
\* raises RefreshError (or a transport error) on failure; nothing catches it
\* inside get_credentials.
get_credentials_refresh(c) ==
  /\ prog = "gdocs"
  /\ pc[c] = "refresh"
  /\ \/ /\ creds' = [creds EXCEPT ![c] = Creds(issued + 1, now + TokenLifetime, TRUE)]
        /\ issued' = issued + 1
        /\ did' = [did EXCEPT ![c] = "refresh"]
        /\ pc' = [pc EXCEPT ![c] = "write"]
        /\ UNCHANGED <<env, acq>>
     \/ /\ Raise(c, "RefreshError", TRUE)
        /\ UNCHANGED <<creds, issued, did>>
  /\ UNCHANGED <<store, now, invoked, files, tool, content, docArg, stage, pre,
                 attempts, retAt, fileId, calls, fvars, prog>>

\* Lines 38-40: the interactive flow; run_local_server blocks until the grant
\* arrives, or raises.
get_credentials_flow(c) ==
  /\ prog = "gdocs"
  /\ pc[c] = "flow"
  /\ \/ /\ \E r \in BOOLEAN :
             creds' = [creds EXCEPT ![c] = Creds(issued + 1, now + TokenLifetime, r)]
        /\ issued' = issued + 1
        /\ did' = [did EXCEPT ![c] = "flow"]
        /\ pc' = [pc EXCEPT ![c] = "write"]
        /\ UNCHANGED <<env, acq>>
     \/ /\ Raise(c, "FlowError", TRUE)
        /\ UNCHANGED <<creds, issued, did>>
  /\ UNCHANGED <<store, now, invoked, files, tool, content, docArg, stage, pre,
                 attempts, retAt, fileId, calls, fvars, prog>>

\* Lines 41-44: open(token_path, 'wb') truncates the file, pickle.dump fills it,
\* then return creds. open may fail (the file is untouched) and dump may fail
\* (the file is left truncated).
get_credentials_write(c) ==
  /\ prog = "gdocs"
  /\ pc[c] = "write"
  /\ attempts' = [attempts EXCEPT ![c] = @ + 1]
  /\ \/ /\ store' = File(creds[c])
        /\ Return(c)
        /\ UNCHANGED env
     \/ /\ UNCHANGED store
        /\ Raise(c, "OSError", TRUE)
        /\ UNCHANGED retAt
     \/ /\ store' = CorruptFile
        /\ Raise(c, "OSError", TRUE)
        /\ UNCHANGED retAt
  /\ UNCHANGED <<now, issued, invoked, files, tool, content, docArg, stage, creds,
                 pre, did, fileId, calls, fvars, prog>>

\* What a backend call can do: succeed, or raise one of the SDK's errors.
BackendFailures == {"NotFound", "PermissionDenied", "NetworkError"}

\* Lines 67-80 of get_document: documents().get(...).execute() and the envelope.
docs_get_document(c) ==
  /\ prog = "gdocs"
  /\ pc[c] = "execute"
  /\ tool[c] = "get_document"
  /\ calls' = [calls EXCEPT ![c] = Append(@, "documents.get")]
  /\ pc' = [pc EXCEPT ![c] = "done"]
  /\ \/ /\ docArg[c] \in files
        /\ env' = [env EXCEPT ![c] =
                     [success |-> TRUE, document_id |-> docArg[c], title |-> "title",
                      body |-> "body", revision_id |-> "rev"]]
     \/ \E k \in BackendFailures :
          /\ k = "NotFound" => docArg[c] \notin files
          /\ env' = [env EXCEPT ![c] = Catch(k)]
  /\ UNCHANGED <<store, now, issued, invoked, files, tool, content, docArg, stage,
                 creds, pre, did, attempts, acq, retAt, fileId, fvars, prog>>

\* Faulty variant of InsertsContent: the insertion made unconditionally.
InsertsContentMutant(c) == TRUE
\* Line 100 of create_document: if content.
InsertsContent(c) == content[c] # ""

\* Lines 93-100 of create_document: files().create(...).execute(); then, if
\* content is non-empty, get_docs_service() (a second get_credentials), else the
\* success envelope.
docs_create_document_create(c) ==
  /\ prog = "gdocs"
  /\ pc[c] = "execute"
  /\ tool[c] = "create_document"
  /\ stage[c] = 1
  /\ calls' = [calls EXCEPT ![c] = Append(@, "files.create")]
  /\ \/ /\ \E id \in DocIds \ files :
             /\ \A j \in DocIds \ files : id <= j
             /\ files' = files \cup {id}
             /\ fileId' = [fileId EXCEPT ![c] = id]
             /\ IF InsertsContent(c)
                THEN /\ stage' = [stage EXCEPT ![c] = 2]
                     /\ pc' = [pc EXCEPT ![c] = "load"]
                     /\ UNCHANGED env
                ELSE /\ pc' = [pc EXCEPT ![c] = "done"]
                     /\ env' = [env EXCEPT ![c] =
                                  [success |-> TRUE, document_id |-> id,
                                   title |-> "title",
                                   message |-> "Document created successfully"]]
                     /\ UNCHANGED stage
     \/ \E k \in BackendFailures \ {"NotFound"} :
          /\ pc' = [pc EXCEPT ![c] = "done"]
          /\ env' = [env EXCEPT ![c] = Catch(k)]
          /\ UNCHANGED <<files, fileId, stage>>
  /\ UNCHANGED <<store, now, issued, invoked, tool, content, docArg, creds, pre,
                 did, attempts, acq, retAt, fvars, prog>>

\* Lines 102-127 of create_document: documents().batchUpdate(...).execute() and
\* the envelope. No call follows a failure: the except clause only builds the
\* error envelope.
docs_create_document_insert(c) ==
  /\ prog = "gdocs"
  /\ pc[c] = "execute"
  /\ tool[c] = "create_document"
  /\ stage[c] = 2
  /\ calls' = [calls EXCEPT ![c] = Append(@, "documents.batchUpdate")]
  /\ pc' = [pc EXCEPT ![c] = "done"]
  /\ \/ env' = [env EXCEPT ![c] =
                  [success |-> TRUE, document_id |-> fileId[c], title |-> "title",
                   message |-> "Document created successfully"]]
     \/ \E k \in BackendFailures : env' = [env EXCEPT ![c] = Catch(k)]
  /\ UNCHANGED <<store, now, issued, invoked, files, tool, content, docArg, stage,
                 creds, pre, did, attempts, acq, retAt, fileId, fvars, prog>>

\* The coroutine returns its envelope to the dispatcher and the event loop is
\* free again; the call's locals are gone.
Finish(c) ==
  /\ prog = "gdocs"
  /\ pc[c] = "done"
  /\ pc' = [pc EXCEPT ![c] = "idle"]
  /\ tool' = [tool EXCEPT ![c] = "get_document"]
  /\ content' = [content EXCEPT ![c] = ""]
  /\ docArg' = [docArg EXCEPT ![c] = 1]
  /\ stage' = [stage EXCEPT ![c] = 1]
  /\ creds' = [creds EXCEPT ![c] = NoCreds]
  /\ pre' = [pre EXCEPT ![c] = NoFile]
  /\ did' = [did EXCEPT ![c] = "none"]
  /\ attempts' = [attempts EXCEPT ![c] = 0]
  /\ acq' = [acq EXCEPT ![c] = "none"]
  /\ retAt' = [retAt EXCEPT ![c] = 0]
  /\ fileId' = [fileId EXCEPT ![c] = 0]
  /\ calls' = [calls EXCEPT ![c] = <<>>]
  /\ env' = [env EXCEPT ![c] = NoEnv]
  /\ UNCHANGED <<store, now, issued, invoked, files, fvars, prog>>

\* Time passes while the process waits: between calls and during the network
\* calls (refresh, interactive flow, backend execute). The local steps from the
\* authorization server's answer to the return of get_credentials take no time
\* on the scale of a token lifetime.
Tick ==
  /\ prog = "gdocs"
  /\ now < MaxTime
  /\ \A c \in Calls : pc[c] # "write"
  /\ now' = now + 1
  /\ UNCHANGED <<store, issued, invoked, files, pc, tool, content, docArg, stage,
                 creds, pre, did, attempts, acq, retAt, fileId, calls, env, fvars, prog>>

GNext ==
  \/ Tick
  \/ \E c \in Calls :
       \/ Invoke(c)
       \/ Begin(c)
       \/ get_credentials_load(c)
       \/ get_credentials_check(c)
       \/ get_credentials_refresh(c)
       \/ get_credentials_flow(c)
       \/ get_credentials_write(c)
       \/ docs_get_document(c)
       \/ docs_create_document_create(c)
       \/ docs_create_document_insert(c)
       \/ Finish(c)

\* ------------------------------------------------------------------ firebase.py
\* Python's None for an optional argument that was not supplied.
None == "<None>"
Emails == {"a@example.com", "b@example.com"}
Passwords == {"pw12345", "short"}
Names == {"Ana"}
Uid(n) == "uid" \o ToString(n)
\* The user ids a client can pass: the ones handed out so far, and one that
\* never was.
UserIds == {Uid(n) : n \in 1 .. nextUid} \cup {"nobody"}
Collections == {"users"}
Documents == {"123", "456"}
Datas == {[name |-> "Ana"], [age |-> "30"]}
\* What makes a backend call fail whatever the arguments are.
EnvFailures == {"PermissionDenied", "NetworkError"}
Faults == {"none"} \cup EnvFailures

NoUsers == [u \in {} |-> 0]
NoUser == [email |-> None, display_name |-> None, password |-> None]
NoParams == [k \in {} |-> ""]
NoLast ==
  [tool |-> "none", uid |-> None, email |-> None, display_name |-> None,
   password |-> None, coll |-> None, doc |-> None, fault |-> "none",
   forwarded |-> NoParams, pre |-> NoUser]
NoHist == [orig |-> NoUsers, deleted |-> {}]

\* The identity backend's own checks (firebase_admin.auth): a password of at
\* least 6 characters, an email no other user holds.
PasswordOk(p) == Len(p) >= 6
EmailFree(email, except) ==
  \A u \in DOMAIN users \ except : users[u].email # email

\* auth.create_user(email=..., password=...): "" when it succeeds, else the
\* error it raises.
CreateUserError(email, password, fault) ==
  IF fault # "none" THEN fault
  ELSE IF ~PasswordOk(password) THEN "ValueError"
  ELSE IF ~EmailFree(email, {}) THEN "EmailAlreadyExists"
  ELSE ""
\* auth.get_user(uid) / auth.delete_user(uid).
UserLookupError(uid, fault) ==
  IF fault # "none" THEN fault
  ELSE IF uid \notin DOMAIN users THEN "UserNotFound"
  ELSE ""
\* auth.update_user(uid, **params).
UpdateUserError(uid, params, fault) ==
  IF fault # "none" THEN fault
  ELSE IF uid \notin DOMAIN users THEN "UserNotFound"
  ELSE IF "password" \in DOMAIN params /\ ~PasswordOk(params["password"]) THEN "ValueError"
  ELSE IF "email" \in DOMAIN params /\ ~EmailFree(params["email"], {uid})
       THEN "EmailAlreadyExists"
  ELSE ""
\* The backend stores exactly the properties it is handed.
ApplyUpdate(user, params) ==
  [f \in DOMAIN user |-> IF f \in DOMAIN params THEN params[f] ELSE user[f]]

\* Faulty variant of update_params: every argument forwarded, None included.
update_params_mutant(email, display_name, password) ==
  [email |-> email, display_name |-> display_name, password |-> password]
\* Lines 105-111 of update_user: only the arguments that are not None go into
\* update_params.
update_params(email, display_name, password) ==
  LET given == [email |-> email, display_name |-> display_name, password |-> password]
  IN [f \in {g \in DOMAIN given : given[g] # None} |-> given[f]]

\* "user": {"uid": ..., "email": ..., "display_name": ...} of get_user and
\* update_user.
UserFields(uid, user) ==
  [uid |-> uid, email |-> user.email, display_name |-> user.display_name]

\* Faulty variant of get_user_envelope: a user that is not found reported as
\* a success without fields.
get_user_envelope_mutant(uid, err) ==
  IF err \in {"", "UserNotFound"}
  THEN [success |-> TRUE,
        user |-> IF uid \in DOMAIN users THEN UserFields(uid, users[uid])
                 ELSE [uid |-> uid, email |-> None, display_name |-> None]]
  ELSE Catch(err)
\* Lines 63-77 of get_user: the envelope, from what auth.get_user did.
get_user_envelope(uid, err) ==
  IF err = ""
  THEN [success |-> TRUE, user |-> UserFields(uid, users[uid])]
  ELSE Catch(err)

\* Python's None as the "data" of an envelope.
Null == [null |-> TRUE]

\* Faulty variant of get_document_envelope: a missing document reported as a
\* failure.
get_document_envelope_mutant(key, fault) ==
  IF fault # "none" THEN Catch(fault)
  ELSE IF key \in DOMAIN fdocs THEN [success |-> TRUE, data |-> fdocs[key]]
  ELSE Catch("NotFound")
\* Lines 240-250 of get_document: doc.to_dict() if doc.exists else None, and an
\* error envelope only when the lookup raised.
get_document_envelope(key, fault) ==
  IF fault # "none" THEN Catch(fault)
  ELSE [success |-> TRUE, data |-> IF key \in DOMAIN fdocs THEN fdocs[key] ELSE Null]

FCall(t) == [NoLast EXCEPT !.tool = t]

\* Lines 21-43.
create_user ==
  /\ prog = "auth"
  /\ \E email \in Emails, password \in Passwords, fault \in Faults :
       LET err == CreateUserError(email, password, fault)
           uid == Uid(nextUid + 1)
       IN /\ last' = [FCall("create_user") EXCEPT
                        !.email = email, !.password = password, !.fault = fault]
          /\ IF err = ""
             THEN /\ nextUid < MaxUsers
                  /\ nextUid' = nextUid + 1
                  /\ users' = [u \in DOMAIN users \cup {uid} |->
                                 IF u = uid
                                 THEN [email |-> email, display_name |-> None,
                                       password |-> password]
                                 ELSE users[u]]
                  /\ hist' = [hist EXCEPT !.orig =
                                [u \in DOMAIN @ \cup {uid} |->
                                   IF u = uid THEN email ELSE @[u]]]
                  /\ fenv' = [success |-> TRUE, uid |-> uid, email |-> email]
             ELSE /\ fenv' = Catch(err)
                  /\ UNCHANGED <<users, nextUid, hist>>
  /\ UNCHANGED <<fdocs, gvars, prog>>

\* Lines 45-58.
get_users ==
  /\ prog = "auth"
  /\ \E fault \in Faults :
       /\ last' = [FCall("get_users") EXCEPT !.fault = fault]
       /\ fenv' = IF fault = "none"
                  THEN [success |-> TRUE, users |-> DOMAIN users]
                  ELSE Catch(fault)
  /\ UNCHANGED <<users, nextUid, hist, fdocs, gvars, prog>>

\* Lines 60-77.
get_user ==
  /\ prog = "auth"
  /\ \E uid \in UserIds, fault \in Faults :
       /\ last' = [FCall("get_user") EXCEPT !.uid = uid, !.fault = fault]
       /\ fenv' = get_user_envelope(uid, UserLookupError(uid, fault))
  /\ UNCHANGED <<users, nextUid, hist, fdocs, gvars, prog>>

\* Lines 79-92.
delete_user ==
  /\ prog = "auth"
  /\ \E uid \in UserIds, fault \in Faults :
       LET err == UserLookupError(uid, fault)
       IN /\ last' = [FCall("delete_user") EXCEPT
                        !.uid = uid, !.fault = fault]
          /\ IF err = ""
             THEN /\ users' = [u \in DOMAIN users \ {uid} |-> users[u]]
                  /\ hist' = [orig |-> [u \in DOMAIN hist.orig \ {uid} |-> hist.orig[u]],
                              deleted |-> hist.deleted \cup {uid}]
                  /\ fenv' = [success |-> TRUE, message |-> "deleted"]
             ELSE /\ fenv' = Catch(err)
                  /\ UNCHANGED <<users, hist>>
  /\ UNCHANGED <<nextUid, fdocs, gvars, prog>>

\* Lines 94-126.
update_user ==
  /\ prog = "auth"
  /\ \E uid \in UserIds, email \in Emails \cup {None}, display_name \in Names \cup {None},
        password \in Passwords \cup {None}, fault \in Faults :
       LET params == update_params(email, display_name, password)
           err == UpdateUserError(uid, params, fault)
       IN /\ last' = [FCall("update_user") EXCEPT
                        !.uid = uid, !.email = email, !.display_name = display_name,
                        !.password = password, !.fault = fault,
                        !.forwarded = params,
                        !.pre = IF uid \in DOMAIN users THEN users[uid] ELSE NoUser]
          /\ IF err = ""
             THEN /\ users' = [users EXCEPT ![uid] = ApplyUpdate(@, params)]
                  /\ hist' = [hist EXCEPT !.orig =
                                IF "email" \in DOMAIN params
                                THEN [u \in DOMAIN @ \ {uid} |-> @[u]]
                                ELSE @]
                  /\ fenv' = [success |-> TRUE, user |-> UserFields(uid, users'[uid])]
             ELSE /\ fenv' = Catch(err)
                  /\ UNCHANGED <<users, hist>>
  /\ UNCHANGED <<nextUid, fdocs, gvars, prog>>

\* Lines 128-165: auth.get_user, then auth.generate_email_verification_link.
verify_email ==
  /\ prog = "auth"
  /\ \E uid \in UserIds, fault \in Faults, linkFault \in Faults :
       LET err == UserLookupError(uid, fault)
       IN /\ err # "" => linkFault = "none"
          /\ last' = [FCall("verify_email") EXCEPT
                        !.uid = uid, !.fault = IF err # "" THEN fault ELSE linkFault]
          /\ fenv' = IF err # "" THEN Catch(err)
                     ELSE IF linkFault # "none" THEN Catch(linkFault)
                     ELSE [success |-> TRUE, email |-> users[uid].email,
                           verification_link |-> "link", message |-> "generated"]
  /\ UNCHANGED <<users, nextUid, hist, fdocs, gvars, prog>>

\* Lines 167-202: auth.generate_password_reset_link.
reset_password ==
  /\ prog = "auth"
  /\ \E email \in Emails, fault \in Faults :
       /\ last' = [FCall("reset_password") EXCEPT !.email = email, !.fault = fault]
       /\ fenv' = IF fault # "none" THEN Catch(fault)
                  ELSE IF EmailFree(email, {}) THEN Catch("EmailNotFound")
                  ELSE [success |-> TRUE, email |-> email, reset_link |-> "link",
                        message |-> "generated"]
  /\ UNCHANGED <<users, nextUid, hist, fdocs, gvars, prog>>

\* Lines 205-219.
get_collections ==
  /\ prog = "firestore"
  /\ \E fault \in Faults :
       LET collections == {k[1] : k \in DOMAIN fdocs}
       IN /\ last' = [FCall("get_collections") EXCEPT !.fault = fault]
          /\ fenv' = IF fault = "none"
                     THEN [success |-> TRUE, collections |-> collections,
                           count |-> Cardinality(collections)]
                     ELSE Catch("Failed to get collections: " \o fault)
  /\ UNCHANGED <<users, nextUid, hist, fdocs, gvars, prog>>

\* Lines 221-235.
get_documents ==
  /\ prog = "firestore"
  /\ \E coll \in Collections, fault \in Faults :
       LET docs == {k[2] : k \in {j \in DOMAIN fdocs : j[1] = coll}}
       IN /\ last' = [FCall("get_documents") EXCEPT !.coll = coll, !.fault = fault]
          /\ fenv' = IF fault = "none"
                     THEN [success |-> TRUE, documents |-> docs,
                           count |-> Cardinality(docs)]
                     ELSE Catch("Failed to get documents: " \o fault)
  /\ UNCHANGED <<users, nextUid, hist, fdocs, gvars, prog>>

\* Lines 237-250.
get_document ==
  /\ prog = "firestore"
  /\ \E coll \in Collections, doc \in Documents, fault \in Faults :
       /\ last' = [FCall("get_document") EXCEPT
                     !.coll = coll, !.doc = doc, !.fault = fault]
       /\ fenv' = get_document_envelope(<<coll, doc>>, fault)
  /\ UNCHANGED <<users, nextUid, hist, fdocs, gvars, prog>>

\* Lines 252-265: document(...).set(data) creates or replaces the document.
create_document ==
  /\ prog = "firestore"
  /\ \E coll \in Collections, doc \in Documents, data \in Datas, fault \in Faults :
       /\ last' = [FCall("create_document") EXCEPT
                     !.coll = coll, !.doc = doc, !.fault = fault]
       /\ IF fault = "none"
          THEN /\ fdocs' = [k \in DOMAIN fdocs \cup {<<coll, doc>>} |->
                              IF k = <<coll, doc>> THEN data ELSE fdocs[k]]
               /\ fenv' = [success |-> TRUE, message |-> "created"]
          ELSE /\ fenv' = Catch(fault)
               /\ UNCHANGED fdocs
  /\ UNCHANGED <<users, nextUid, hist, gvars, prog>>

\* Lines 267-280: document(...).update(data) merges the fields into an
\* existing document and raises NotFound when there is none.
update_document ==
  /\ prog = "firestore"
  /\ \E coll \in Collections, doc \in Documents, data \in Datas, fault \in Faults :
       LET key == <<coll, doc>>
       IN /\ last' = [FCall("update_document") EXCEPT
                        !.coll = coll, !.doc = doc, !.fault = fault]
          /\ IF fault = "none" /\ key \in DOMAIN fdocs
             THEN /\ fdocs' = [fdocs EXCEPT ![key] =
                                 [f \in DOMAIN @ \cup DOMAIN data |->
                                    IF f \in DOMAIN data THEN data[f] ELSE @[f]]]
                  /\ fenv' = [success |-> TRUE, message |-> "updated"]
             ELSE /\ fenv' = Catch(IF fault = "none" THEN "NotFound" ELSE fault)
                  /\ UNCHANGED fdocs
  /\ UNCHANGED <<users, nextUid, hist, gvars, prog>>

\* Lines 282-295: document(...).delete() succeeds whether or not it exists.
delete_document ==
  /\ prog = "firestore"
  /\ \E coll \in Collections, doc \in Documents, fault \in Faults :
       LET key == <<coll, doc>>
       IN /\ last' = [FCall("delete_document") EXCEPT
                        !.coll = coll, !.doc = doc, !.fault = fault]
          /\ IF fault = "none"
             THEN /\ fdocs' = [k \in DOMAIN fdocs \ {key} |-> fdocs[k]]
                  /\ fenv' = [success |-> TRUE, message |-> "deleted"]
             ELSE /\ fenv' = Catch(fault)
                  /\ UNCHANGED fdocs
  /\ UNCHANGED <<users, nextUid, hist, gvars, prog>>

FNext ==
  \/ create_user
  \/ get_users
  \/ get_user
  \/ delete_user
  \/ update_user
  \/ verify_email
  \/ reset_password
  \/ get_collections
  \/ get_documents
  \/ get_document
  \/ create_document
  \/ update_document
  \/ delete_document

\* ------------------------------------------------------------------ properties

\* An envelope a tool may return: success=true with result fields and no error,
\* or success=false with exactly an error string.
WellFormed(e) ==
  /\ "success" \in DOMAIN e
  /\ IF e.success
     THEN "error" \notin DOMAIN e /\ DOMAIN e \ {"success"} # {}
     ELSE DOMAIN e = {"success", "error"} /\ e.error \in STRING

\* C1: every tool call of both servers ends in a well-formed envelope, whatever
\* the backend call or the credential acquisition did: a call that is done
\* holds success=true with result fields and no error, or success=false with
\* an error string and nothing else; no failure leaves the tool.
C1_EnvelopeWellFormed ==
  /\ \A c \in Calls :
       /\ pc[c] = "done" => WellFormed(env[c])
       /\ pc[c] # "done" => DOMAIN env[c] = {"none"}
  /\ last.tool # "none" => WellFormed(fenv)

\* A word-processor call whose silent refresh failed returned an error envelope.
C1_Witness ==
  \E c \in Calls :
    /\ pc[c] = "done" /\ acq[c] = "raised" /\ did[c] = "none" /\ attempts[c] = 0
    /\ creds[c].kind = "creds" /\ creds[c].refresh
    /\ ~env[c].success /\ env[c].error = "RefreshError"

\* C2: whatever the token file held and whatever refresh and flow did, a
\* get_credentials that returned handed out a valid record: an access token
\* that is not expired at the instant of the return.
C2_ReturnedCredentialsValid ==
  \A c \in Calls : acq[c] = "returned" => ValidAt(creds[c], retAt[c])

\* get_credentials returned a record it had just refreshed.
C2_Witness ==
  \E c \in Calls : acq[c] = "returned" /\ did[c] = "refresh" /\ pre[c] # store

\* C3 (as claimed): a failed silent refresh never ends the acquisition; no tool
\* call ends with get_credentials raising the refresh failure.
C3_RefreshFailureFallsThrough ==
  \A c \in Calls :
    ~(pc[c] = "done" /\ acq[c] = "raised" /\ env[c].error = "RefreshError")

\* C4: get_credentials executes the write of the token file at most once per
\* acquisition, only after a successful refresh or interactive authorization,
\* always after one, and before it returns; on the valid path it does not
\* write and the token file is what it loaded, also for the second of two
\* acquisitions in a row.
C4_WriteIffRefreshedOrAuthorized ==
  \A c \in Calls :
    /\ attempts[c] <= 1
    /\ attempts[c] = 1 => did[c] # "none"
    /\ (pc[c] \in {"execute", "done"} /\ did[c] # "none") => attempts[c] = 1
    /\ (acq[c] = "returned" /\ did[c] = "none") => attempts[c] = 0 /\ store = pre[c]
    /\ (acq[c] = "returned" /\ did[c] # "none") => store = File(creds[c])

\* The second acquisition of one create_document found the record the first
\* had cached still valid and wrote nothing.
C4_Witness ==
  \E c \in Calls :
    /\ stage[c] = 2 /\ acq[c] = "returned" /\ did[c] = "none" /\ attempts[c] = 0
    /\ store = pre[c] /\ store.state = "file"

\* C5 (as claimed): nothing serialises two acquisitions; while one call is
\* between its load of an unusable record and its write, the other call in
\* flight can start its own acquisition.
C5_NothingSerialises ==
  \A c, d \in Calls :
    (c # d /\ pc[c] \in {"refresh", "flow", "write"} /\ pc[d] = "pending")
      => ENABLED Begin(d)

\* C5 (amended): the acquisitions of two calls in flight are serialised; at
\* most one call is between the start of its coroutine and its envelope, so a
\* call loads the token file only after the other has finished.
C5_AcquisitionsSerialised ==
  \A c, d \in Calls : (c \in Running /\ d \in Running) => c = d

\* Two calls in flight, the token file expired or missing: one call is in its
\* refresh or interactive flow, the other has not started.
C5_Witness ==
  \E c, d \in Calls :
    /\ c # d /\ pc[c] \in {"refresh", "flow"} /\ pc[d] = "pending"
    /\ ~ValidAt(creds[c], now)

\* C6: update_user forwards to auth.update_user exactly the arguments that are
\* not None, with their values; a call that supplies only display_name leaves
\* the email and the password of an existing user as they were.
C6_UpdateForwardsOnlySupplied ==
  last.tool = "update_user" =>
    /\ DOMAIN last.forwarded =
         {f \in {"email", "display_name", "password"} : last[f] # None}
    /\ \A f \in DOMAIN last.forwarded : last.forwarded[f] = last[f]
    /\ (last.email = None /\ last.password = None /\ last.pre # NoUser) =>
         /\ last.uid \in DOMAIN users
         /\ users[last.uid].email = last.pre.email
         /\ users[last.uid].password = last.pre.password

\* update_user with only display_name succeeded on an existing user.
C6_Witness ==
  /\ last.tool = "update_user" /\ last.email = None /\ last.password = None
  /\ last.display_name = "Ana" /\ fenv.success
  /\ users[last.uid].display_name = "Ana" /\ last.pre.display_name = None

\* C7: the document-store get_document of a document that does not exist
\* returns {success: true, data: null} when the lookup itself succeeded, and
\* success=false exactly when the backend call raised.
C7_MissingDocumentIsSuccessNull ==
  last.tool = "get_document" =>
    /\ (last.fault = "none" /\ <<last.coll, last.doc>> \notin DOMAIN fdocs) =>
         /\ fenv.success
         /\ DOMAIN fenv = {"success", "data"}
         /\ fenv.data = Null
    /\ ~fenv.success <=> last.fault # "none"

\* get_document of a missing document, next to one that exists.
C7_Witness ==
  /\ last.tool = "get_document" /\ last.fault = "none"
  /\ <<last.coll, last.doc>> \notin DOMAIN fdocs
  /\ DOMAIN fdocs # {}
  /\ fenv.success

\* C8: create_document calls files.create first and documents.batchUpdate
\* second, the second only for non-empty content and always for it when the
\* tool succeeds; no other backend call is made; when the file was created and
\* the tool then fails, it returns an error envelope and the file is still in
\* the backend.
C8_CreateThenInsertNoRollback ==
  \A c \in Calls :
    tool[c] = "create_document" =>
      /\ calls[c] \in {<<>>, <<"files.create">>,
                       <<"files.create", "documents.batchUpdate">>}
      /\ Len(calls[c]) = 2 => content[c] # ""
      /\ (pc[c] = "done" /\ env[c].success) =>
           Len(calls[c]) = (IF content[c] # "" THEN 2 ELSE 1)
      /\ fileId[c] # 0 => fileId[c] \in files
      /\ (pc[c] = "done" /\ fileId[c] # 0 /\ Len(calls[c]) = 1 /\ content[c] # "") =>
           /\ ~env[c].success /\ acq[c] = "raised"
           /\ env[c].error \in {"UnpicklingError", "RefreshError", "FlowError", "OSError"}
      /\ (pc[c] = "done" /\ Len(calls[c]) = 2 /\ ~env[c].success) =>
           env[c].error \in BackendFailures

\* The file was created, the insertion failed: error envelope, file kept.
C8_Witness ==
  \E c \in Calls :
    /\ tool[c] = "create_document" /\ pc[c] = "done" /\ fileId[c] \in files
    /\ Len(calls[c]) = 2 /\ ~env[c].success

\* C9: create_user that succeeds returns a non-empty uid whose user holds the
\* given email, and it fails for an acceptable password only when the email is
\* taken; get_user of a live uid returns success with that user's email, the
\* one it was created with unless update_user changed it; delete_user of a
\* live uid returns success and removes it; get_user of a deleted uid returns
\* success=false from then on. (Backend calls the environment fails, by
\* permission or network, are not part of the backend accepting the call.)
C9_CreateGetDeleteGet ==
  /\ \A u \in hist.deleted : u \notin DOMAIN users
  /\ last.tool = "create_user" =>
       /\ fenv.success =>
            /\ fenv.uid # "" /\ fenv.uid \in DOMAIN users
            /\ fenv.email = last.email /\ users[fenv.uid].email = last.email
       /\ (~fenv.success /\ last.fault = "none" /\ PasswordOk(last.password)) =>
            fenv.error = "EmailAlreadyExists"
  /\ last.tool = "get_user" =>
       /\ (last.fault = "none" /\ last.uid \in DOMAIN users) =>
            /\ fenv.success /\ fenv.user.uid = last.uid
            /\ fenv.user.email = users[last.uid].email
            /\ last.uid \in DOMAIN hist.orig => fenv.user.email = hist.orig[last.uid]
       /\ last.uid \in hist.deleted => ~fenv.success
  /\ last.tool = "delete_user" =>
       /\ fenv.success => last.uid \notin DOMAIN users /\ last.uid \in hist.deleted
       /\ (~fenv.success /\ last.fault = "none") => fenv.error = "UserNotFound"

\* get_user of a uid that was created and then deleted: success=false.
C9_Witness ==
  /\ last.tool = "get_user" /\ last.fault = "none" /\ last.uid \in hist.deleted
  /\ ~fenv.success /\ fenv.error = "UserNotFound"

\* C10 (as claimed): with one acquisition at a time, after a get_credentials
\* that returned the token file holds the record returned, and after one that
\* raised it holds what it held before.
C10_StoreMatchesOrUnchanged ==
  \A c \in Calls :
    /\ acq[c] = "returned" =>
         store.state = "file" /\ Unpickle(store.bytes) = creds[c]
    /\ acq[c] = "raised" => store = pre[c]


FInit ==
  /\ users = NoUsers
  /\ nextUid = 0
  /\ hist = NoHist
  /\ fdocs = [k \in {} |-> 0]
  /\ last = NoLast
  /\ fenv = NoEnv

Init == prog \in {"gdocs", "auth", "firestore"} /\ GInit /\ FInit
Next == GNext \/ FNext
Spec == Init /\ [][Next]_vars

====
